---- MODULE Spec2Model ----
(***************************************************************************)
(* Model of fundgrube.py: the history store (old_results.csv), the error   *)
(* marker (data/previous_error.txt), the notifier mail_notify and the      *)
(* orchestrator under  if __name__ == "__main__".                          *)
(*                                                                         *)
(* Three specifications share the variables:                               *)
(*   Spec        a sequence of runs of the orchestrator;                   *)
(*   SpecNotify  direct calls of mail_notify with arbitrary arguments;     *)
(*   SpecStore   direct calls of save_results and of the history load.     *)
(***************************************************************************)
EXTENDS Naturals, Sequences, FiniteSets, TLC

VARIABLES
    csv,        \* old_results.csv: [exists, rows]
    marker,     \* data/previous_error.txt: NoMarker, or its content
    creds,      \* MAIL_SENDER and MAIL_PASSWORD are both set
    outbox,     \* every message handed to SMTP, with the transport's outcome
    clock,      \* wall clock, in whole seconds
    pc,         \* position of the process: "idle", "fetch", "save", "notify"
    filter_list,\* filters of the configuration file
    old_dict,   \* __main__: history loaded at the start of the run
    findings,   \* __main__: new postings collected so far in the run
    fil,        \* __main__: index of the current filter
    ep,         \* __main__: index of the current endpoint
    run,        \* observation of the current (or last) run
    prev,       \* summary of the run before it
    prev2,      \* summary of the run before that
    call        \* observation of the last direct call (SpecNotify, SpecStore)

vars == <<csv, marker, creds, outbox, clock, pc, filter_list, old_dict,
          findings, fil, ep, run, prev, prev2, call>>

----------------------------------------------------------------------------
(* Bounds of the model. *)

MaxPostings == 1
MaxClock == 2
MaxCalls == 2

(* Posting identifiers the endpoints may return. *)
Ids == {"A", "B"}

(* filter_list as read from the configuration file. *)
Filters == <<"switch">>

(* base_mm, base_sa *)
base_mm == "https://www.mediamarkt.de/de/data/fundgrube"
base_sa == "https://www.saturn.de/de/data/fundgrube"
Endpoints == <<base_mm, base_sa>>

(* Exception class names. *)
FetchKinds == {"ConnectionError", "JSONDecodeError"}
SendKind == "SMTPException"
SaveKind == "PermissionError"
MissingKind == "FileNotFoundError"
KeyKind == "KeyError"
ValueKind == "ValueError"

(* Python's None as the error argument, and the outcome "no exception". *)
None == "None"
NoError == "NoError"
(* The marker file or the history file does not exist. *)
NoMarker == "<no marker file>"
NoFile == [exists |-> FALSE, rows |-> <<>>]

----------------------------------------------------------------------------
(* Posting *)

(* The raw record an endpoint returns for listing id. *)
RawPosting(id) ==
    [posting_id |-> id, pim_id |-> "pim" \o id, name |-> "item " \o id,
     price |-> "10", outlet_id |-> "418"]

(* Posting.__init__, called with the raw record and base_url. *)
Posting(raw, base_url) ==
    [base_url |-> base_url, posting_id |-> raw.posting_id,
     pim_id |-> raw.pim_id, name |-> raw.name, price |-> raw.price,
     outlet_id |-> raw.outlet_id]

(* Posting.get_direct_url *)
get_direct_url(p) ==
    p.base_url \o "?outletIds=" \o p.outlet_id \o "&text=" \o p.pim_id

(* Posting.__str__ followed by the direct URL: one line of the mail body. *)
MailLine(p) == p.name \o " - " \o p.price \o ": " \o get_direct_url(p)

----------------------------------------------------------------------------
(* Timestamps.  A datetime is <<seconds, microseconds>>. *)

Digits == <<"0", "1", "2", "3", "4", "5", "6", "7", "8", "9">>
Seconds == 0 .. 9
Micros == {0, 500000}

(* now.strftime('%Y-%m-%d %H:%M:%S'): the microseconds are dropped. *)
strftime(dt) == "2024-01-01 00:00:0" \o Digits[dt[1] + 1]

IsDateString(s) == \E t \in Seconds : strftime(<<t, 0>>) = s

(* datetime.strptime(s, '%Y-%m-%d %H:%M:%S'), for s a date string. *)
strptime(s) == <<CHOOSE t \in Seconds : strftime(<<t, 0>>) = s, 0>>

----------------------------------------------------------------------------
(* History store *)

HeaderRow == <<"Date", "Id", "Name", "Price", "Url">>

DataRow(now, find) ==
    <<strftime(now), find.posting_id, find.name, find.price,
      get_direct_url(find)>>

(* Mutant: the rows are written last finding first. *)
RECURSIVE DataRowsReversed(_, _)
DataRowsReversed(now, fs) ==
    IF fs = <<>> THEN <<>>
    ELSE DataRowsReversed(now, Tail(fs)) \o <<DataRow(now, Head(fs))>>

RECURSIVE DataRows(_, _)
DataRows(now, fs) ==
    IF fs = <<>> THEN <<>>
    ELSE <<DataRow(now, Head(fs))>> \o DataRows(now, Tail(fs))

(* Mutant: the header row is written on every call. *)
save_results_with_header(file, fs, now) ==
    [exists |-> TRUE,
     rows |-> file.rows \o <<HeaderRow>> \o DataRows(now, fs)]

(* Mutant: the file is opened for writing, which truncates it. *)
save_results_truncating(file, fs, now) ==
    [exists |-> TRUE, rows |-> <<HeaderRow>> \o DataRows(now, fs)]

(* save_results: the file is opened for append (and so created), the       *)
(* header row is written when the file did not exist, then one row per     *)
(* finding, all with the same timestamp.                                   *)
save_results(file, fs, now) ==
    [exists |-> TRUE,
     rows |-> (IF file.exists THEN file.rows ELSE <<HeaderRow>>)
                  \o DataRows(now, fs)]

(* csv.DictReader: the first row names the columns. *)
ColumnOf(fieldnames, name) ==
    IF \E i \in 1 .. Len(fieldnames) : fieldnames[i] = name
    THEN CHOOSE i \in 1 .. Len(fieldnames) : fieldnames[i] = name
    ELSE 0

(* Mutant: the first record is taken for a second header line and skipped. *)
read_results_skipping_first(file) ==
    IF ~file.exists THEN [raised |-> MissingKind, dict |-> <<>>]
    ELSE IF Len(file.rows) <= 2 THEN [raised |-> NoError, dict |-> <<>>]
    ELSE
    LET rows == Tail(Tail(file.rows))
        last(id) == CHOOSE i \in 1 .. Len(rows) :
                        /\ rows[i][2] = id
                        /\ \A j \in (i + 1) .. Len(rows) : rows[j][2] # id
    IN  [raised |-> NoError,
         dict |-> [id \in {rows[i][2] : i \in 1 .. Len(rows)} |->
                       strptime(rows[last(id)][1])]]

(* read_results_from_csv: [raised, dict].  open() fails on a missing file; *)
(* a later row with the same Id overwrites the entry of an earlier one.    *)
read_results_from_csv(file) ==
    IF ~file.exists THEN [raised |-> MissingKind, dict |-> <<>>]
    ELSE IF Len(file.rows) <= 1 THEN [raised |-> NoError, dict |-> <<>>]
    ELSE
    LET rows == Tail(file.rows)
        idc == ColumnOf(Head(file.rows), "Id")
        dc == ColumnOf(Head(file.rows), "Date")
        last(id) == CHOOSE i \in 1 .. Len(rows) :
                        /\ rows[i][idc] = id
                        /\ \A j \in (i + 1) .. Len(rows) : rows[j][idc] # id
    IN  IF idc = 0 \/ dc = 0 THEN [raised |-> KeyKind, dict |-> <<>>]
        ELSE IF \E i \in 1 .. Len(rows) : ~IsDateString(rows[i][dc])
        THEN [raised |-> ValueKind, dict |-> <<>>]
        ELSE [raised |-> NoError,
              dict |-> [id \in {rows[i][idc] : i \in 1 .. Len(rows)} |->
                            strptime(rows[last(id)][dc])]]

(* Mutant: the history is never read. *)
LoadHistoryNever(file) == [raised |-> NoError, dict |-> <<>>]

(* Mutant: the history is read without looking whether the file exists. *)
LoadHistoryUnguarded(file) == read_results_from_csv(file)

(* __main__: the history is read only when the file exists. *)
LoadHistory(file) ==
    IF file.exists THEN read_results_from_csv(file)
    ELSE [raised |-> NoError, dict |-> <<>>]

----------------------------------------------------------------------------
(* Notifier *)

(* error.__class__.__name__; the class of None is NoneType. *)
ClassName(error) == IF error = None THEN "NoneType" ELSE error

RECURSIVE MailLines(_)
MailLines(posting_list) ==
    IF posting_list = <<>> THEN <<>>
    ELSE <<MailLine(Head(posting_list))>> \o MailLines(Tail(posting_list))

ErrorSubject == "An error occured"
ErrorMail(error) ==
    [subject |-> ErrorSubject, count |-> 0, body |-> <<error \o "()">>]
NewItemsMail(new_count, posting_list) ==
    [subject |-> "new items", count |-> new_count,
     body |-> MailLines(posting_list)]
FixedMail ==
    [subject |-> "Error fixed", count |-> 0, body |-> <<"Previous error fixed">>]

(* Mutant: mail only on new data or on an error. *)
ShouldSendNoFix(cr, new_count, error, old_error) ==
    cr /\ (new_count > 0 \/ error # None)

ShouldSendWithoutCredentials(cr, new_count, error, old_error) ==
    new_count > 0 \/ ClassName(error) # old_error

(* The condition under which mail_notify does anything at all. *)
ShouldSend(cr, new_count, error, old_error) ==
    cr /\ (new_count > 0 \/ ClassName(error) # old_error)

(* mail_notify, on the marker file mk, with credentials cr, the transport  *)
(* succeeding or not (sendOk): [marker, sent, raised].  The marker file is *)
(* written or removed before the message is handed to SMTP; os.remove      *)
(* raises when there is no marker file.                                    *)
mail_notify(mk, cr, new_count, posting_list, error, sendOk) ==
    LET old_error == mk
        Send(mk2, msg) ==
            [marker |-> mk2,
             sent |-> <<[msg |-> msg, ok |-> sendOk]>>,
             raised |-> IF sendOk THEN NoError ELSE SendKind]
    IN  IF ~ShouldSend(cr, new_count, error, old_error)
        THEN [marker |-> mk, sent |-> <<>>, raised |-> NoError]
        ELSE IF error # None
        THEN Send(ClassName(error), ErrorMail(error))
        ELSE IF new_count > 0
        THEN Send(mk, NewItemsMail(new_count, posting_list))
        ELSE IF mk = NoMarker
        THEN [marker |-> mk, sent |-> <<>>, raised |-> MissingKind]
        ELSE Send(NoMarker, FixedMail)

----------------------------------------------------------------------------
(* Orchestrator: one run of __main__ *)

(* What a fetch can return: the listing ids of the response, in order. *)
Responses == UNION {[1 .. n -> Ids] : n \in 0 .. MaxPostings}

(* posting_list of one response, built with the endpoint's base_url. *)
PostingsOf(resp, base_url) ==
    [i \in 1 .. Len(resp) |-> Posting(RawPosting(resp[i]), base_url)]

(* Mutant: the history is looked up by the product id. *)
IsNewByPimId(p, dict) == p.pim_id \notin DOMAIN dict

(* A posting is a finding when old_dict has no entry for its posting_id. *)
IsNew(p, dict) == p.posting_id \notin DOMAIN dict

(* Mutant: the test of the inner loop is inverted. *)
ClassifyKnown(posting_list, dict) ==
    LET keep(p) == ~IsNew(p, dict) IN SelectSeq(posting_list, keep)

(* The inner loop over posting_list: the findings of one response. *)
Classify(posting_list, dict) ==
    LET keep(p) == IsNew(p, dict) IN SelectSeq(posting_list, keep)

(* The postings of one response, each with the filter it was found for. *)
Found(f, posting_list) ==
    [i \in 1 .. Len(posting_list) |-> [fil |-> f, post |-> posting_list[i]]]

IdsOf(posting_list) ==
    {posting_list[i].posting_id : i \in 1 .. Len(posting_list)}

NoRun ==
    [started |-> FALSE, done |-> FALSE, error |-> NoError, ids |-> {},
     nfetched |-> 0, fetched |-> <<>>, new_count |-> 0, startCsv |-> NoFile,
     startMarker |-> NoMarker, startOut |-> 0]

(* What is kept of a run once the next one has started. *)
Summary(r) ==
    [done |-> r.done, error |-> r.error, ids |-> r.ids,
     nfetched |-> r.nfetched, startRows |-> Len(r.startCsv.rows),
     startMarker |-> r.startMarker]

Summary2(p) == [done |-> p.done, error |-> p.error,
                startMarker |-> p.startMarker]

NoCall == [op |-> "none", n |-> 0]

(* The process ends, normally (NoError) or with an uncaught exception. *)
EndRun(r, error, fs) ==
    [r EXCEPT !.done = TRUE, !.error = error, !.new_count = Len(fs)]

(* The process is gone, and its memory with it. *)
Exit ==
    /\ pc' = "idle"
    /\ old_dict' = <<>>
    /\ findings' = <<>>
    /\ fil' = 1
    /\ ep' = 1

(* Start of a run, some time after the last one: the filters are read, the *)
(* history is loaded.                                                      *)
StartRun ==
    /\ pc = "idle"
    /\ clock < MaxClock
    /\ clock' = clock + 1
    /\ prev' = Summary(run)
    /\ prev2' = Summary2(prev)
    /\ LET h == LoadHistory(csv)
           r == [NoRun EXCEPT !.started = TRUE, !.startCsv = csv,
                              !.startMarker = marker,
                              !.startOut = Len(outbox)]
       IN  IF h.raised # NoError
           THEN /\ run' = EndRun(r, h.raised, <<>>)
                /\ Exit
           ELSE /\ run' = r
                /\ old_dict' = h.dict
                /\ findings' = <<>>
                /\ fil' = 1
                /\ ep' = 1
                /\ pc' = IF filter_list = <<>> THEN "save" ELSE "fetch"
    /\ UNCHANGED <<csv, marker, creds, outbox, filter_list, call>>

(* Mutant: the findings of each response are saved as soon as they are     *)
(* classified.                                                             *)
FetchOkSaving ==
    /\ pc = "fetch"
    /\ \E resp \in Responses :
        LET posting_list == PostingsOf(resp, Endpoints[ep])
            new == Classify(posting_list, old_dict)
        IN  /\ findings' = findings \o new
            /\ csv' = IF new = <<>> THEN csv
                      ELSE save_results(csv, new, <<clock, 0>>)
            /\ run' = [run EXCEPT !.ids = @ \cup IdsOf(posting_list),
                                  !.nfetched = @ + Len(posting_list),
                                  !.fetched = @ \o Found(fil, posting_list)]
    /\ IF ep < Len(Endpoints)
       THEN /\ ep' = ep + 1
            /\ UNCHANGED <<fil, pc>>
       ELSE IF fil < Len(filter_list)
       THEN /\ fil' = fil + 1
            /\ ep' = 1
            /\ UNCHANGED pc
       ELSE /\ pc' = "save"
            /\ UNCHANGED <<fil, ep>>
    /\ UNCHANGED <<marker, creds, outbox, clock, filter_list, old_dict, prev,
                   prev2, call>>

(* One pass of the endpoint loop: the request succeeds and its postings    *)
(* are classified against old_dict.                                        *)
FetchOk ==
    /\ pc = "fetch"
    /\ \E resp \in Responses :
        LET posting_list == PostingsOf(resp, Endpoints[ep])
        IN  /\ findings' = findings \o Classify(posting_list, old_dict)
            /\ run' = [run EXCEPT !.ids = @ \cup IdsOf(posting_list),
                                  !.nfetched = @ + Len(posting_list),
                                  !.fetched = @ \o Found(fil, posting_list)]
    /\ IF ep < Len(Endpoints)
       THEN /\ ep' = ep + 1
            /\ UNCHANGED <<fil, pc>>
       ELSE IF fil < Len(filter_list)
       THEN /\ fil' = fil + 1
            /\ ep' = 1
            /\ UNCHANGED pc
       ELSE /\ pc' = "save"
            /\ UNCHANGED <<fil, ep>>
    /\ UNCHANGED <<csv, marker, creds, outbox, clock, filter_list, old_dict,
                   prev, prev2, call>>

(* Mutant: the findings collected before the failure are saved. *)
FetchFailSaving ==
    /\ pc = "fetch"
    /\ \E k \in FetchKinds :
        run' = EndRun(run, k, findings)
    /\ csv' = IF findings = <<>> THEN csv
              ELSE save_results(csv, findings, <<clock, 0>>)
    /\ Exit
    /\ UNCHANGED <<marker, creds, outbox, clock, filter_list, prev, prev2,
                   call>>

(* The request or the decoding of its answer raises: nothing catches it.   *)
FetchFail ==
    /\ pc = "fetch"
    /\ \E k \in FetchKinds :
        run' = EndRun(run, k, findings)
    /\ Exit
    /\ UNCHANGED <<csv, marker, creds, outbox, clock, filter_list, prev, prev2,
                   call>>

(* len(findings) == 0: neither save_results nor mail_notify is called. *)
NoFindings ==
    /\ pc = "save"
    /\ Len(findings) = 0
    /\ run' = EndRun(run, NoError, findings)
    /\ Exit
    /\ UNCHANGED <<csv, marker, creds, outbox, clock, filter_list, prev, prev2,
                   call>>

(* len(findings) > 0: save_results appends the findings. *)
SaveFindings ==
    /\ pc = "save"
    /\ Len(findings) > 0
    /\ \E us \in Micros : csv' = save_results(csv, findings, <<clock, us>>)
    /\ pc' = "notify"
    /\ UNCHANGED <<marker, creds, outbox, clock, filter_list, old_dict,
                   findings, fil, ep, run, prev, prev2, call>>

(* Mutant: the failure of save_results is swallowed and the run goes on. *)
SaveFailNotifying ==
    /\ pc = "save"
    /\ Len(findings) > 0
    /\ pc' = "notify"
    /\ UNCHANGED <<csv, marker, creds, outbox, clock, filter_list, old_dict,
                   findings, fil, ep, run, prev, prev2, call>>

(* save_results cannot open the history file. *)
SaveFail ==
    /\ pc = "save"
    /\ Len(findings) > 0
    /\ run' = EndRun(run, SaveKind, findings)
    /\ Exit
    /\ UNCHANGED <<csv, marker, creds, outbox, clock, filter_list, prev, prev2,
                   call>>

(* mail_notify(len(findings), findings), the last statement of the run. *)
Notify ==
    /\ pc = "notify"
    /\ \E sendOk \in BOOLEAN :
        LET r == mail_notify(marker, creds, Len(findings), findings, None,
                             sendOk)
        IN  /\ marker' = r.marker
            /\ outbox' = outbox \o r.sent
            /\ run' = EndRun(run, r.raised, findings)
    /\ Exit
    /\ UNCHANGED <<csv, creds, clock, filter_list, prev, prev2, call>>

(* The marker file found on disk is whatever an earlier mail_notify left:  *)
(* absent, or the class name of an error.                                  *)
Init ==
    /\ csv = NoFile
    /\ marker \in {NoMarker} \cup FetchKinds
    /\ creds \in BOOLEAN
    /\ outbox = <<>>
    /\ clock = 0
    /\ pc = "idle"
    /\ filter_list = Filters
    /\ old_dict = <<>>
    /\ findings = <<>>
    /\ fil = 1
    /\ ep = 1
    /\ run = NoRun
    /\ prev = Summary(NoRun)
    /\ prev2 = Summary2(Summary(NoRun))
    /\ call = NoCall

Next ==
    \/ StartRun
    \/ FetchOk
    \/ FetchFail
    \/ NoFindings
    \/ SaveFindings
    \/ SaveFail
    \/ Notify

Spec == Init /\ [][Next]_vars

(* One run under a configuration of two filters, on a store that is either *)
(* absent or what an earlier run left on finding posting A.                *)
TwoFilters == <<"switch", "zelda">>

StoreOfEarlierRun ==
    save_results(NoFile, <<Posting(RawPosting("A"), base_mm)>>, <<0, 0>>)

InitTwoFilters ==
    /\ csv \in {NoFile, StoreOfEarlierRun}
    /\ marker \in {NoMarker} \cup FetchKinds
    /\ creds \in BOOLEAN
    /\ outbox = <<>>
    /\ clock = MaxClock - 1
    /\ pc = "idle"
    /\ filter_list = TwoFilters
    /\ old_dict = <<>>
    /\ findings = <<>>
    /\ fil = 1
    /\ ep = 1
    /\ run = NoRun
    /\ prev = Summary(NoRun)
    /\ prev2 = Summary2(Summary(NoRun))
    /\ call = NoCall

SpecTwoFilters == InitTwoFilters /\ [][Next]_vars

----------------------------------------------------------------------------
(* Direct calls of mail_notify *)

(* The error argument: None, or an exception of one of these classes. *)
ErrorArgs == {None} \cup FetchKinds

CallMailNotify ==
    /\ call.n < MaxCalls
    /\ \E resp \in Responses, error \in ErrorArgs, sendOk \in BOOLEAN :
        LET posting_list == PostingsOf(resp, base_mm)
            new_count == Len(posting_list)
            r == mail_notify(marker, creds, new_count, posting_list, error,
                             sendOk)
        IN  /\ marker' = r.marker
            /\ outbox' = outbox \o r.sent
            /\ call' = [op |-> "mail_notify", n |-> call.n + 1,
                        new_count |-> new_count, error |-> error,
                        sendOk |-> sendOk, oldMarker |-> marker,
                        oldOut |-> Len(outbox), raised |-> r.raised]
    /\ UNCHANGED <<csv, creds, clock, pc, filter_list, old_dict, findings, fil,
                   ep, run, prev, prev2>>

InitNotify ==
    /\ Init
    /\ marker = NoMarker

NextNotify == CallMailNotify

SpecNotify == InitNotify /\ [][NextNotify]_vars

(* The same calls, on a marker file that earlier executions may have left. *)
SpecNotifyMarked == Init /\ [][NextNotify]_vars

----------------------------------------------------------------------------
(* Direct calls of save_results and read_results_from_csv *)

CallSaveResults ==
    /\ call.n < MaxCalls
    /\ \E resp \in Responses, t \in clock .. MaxClock, us \in Micros :
        LET fs == PostingsOf(resp, base_mm)
        IN  /\ csv' = save_results(csv, fs, <<t, us>>)
            /\ clock' = t
            /\ call' = [op |-> "save_results", n |-> call.n + 1,
                        findings |-> fs, now |-> <<t, us>>, before |-> csv]
    /\ UNCHANGED <<marker, creds, outbox, pc, filter_list, old_dict, findings,
                   fil, ep, run, prev, prev2>>

CallReadResults ==
    /\ call.n < MaxCalls
    /\ call' = [op |-> "read_results_from_csv", n |-> call.n + 1,
                result |-> read_results_from_csv(csv)]
    /\ UNCHANGED <<csv, marker, creds, outbox, clock, pc, filter_list,
                   old_dict, findings, fil, ep, run, prev, prev2>>

(* The load step of __main__ (the guarded read), on the store as it is. *)
CallLoadHistory ==
    /\ call.n < MaxCalls
    /\ call' = [op |-> "load_history", n |-> call.n + 1,
                result |-> LoadHistory(csv)]
    /\ UNCHANGED <<csv, marker, creds, outbox, clock, pc, filter_list,
                   old_dict, findings, fil, ep, run, prev, prev2>>

InitStore ==
    /\ Init
    /\ marker = NoMarker
    /\ creds = FALSE

NextStore ==
    \/ CallSaveResults
    \/ CallReadResults
    \/ CallLoadHistory

SpecStore == InitStore /\ [][NextStore]_vars

----------------------------------------------------------------------------
(* Vocabulary of the properties *)

(* The records of the history store: its rows after the header row. *)
Records(file) == IF Len(file.rows) <= 1 THEN <<>> ELSE Tail(file.rows)
RecordId(row) == row[ColumnOf(HeaderRow, "Id")]
RecordIds(file) == {RecordId(Records(file)[i]) : i \in 1 .. Len(Records(file))}

(* Messages handed to SMTP since the current run, or the last call, began. *)
SentInRun == Len(outbox) - run.startOut
SentInCall == Len(outbox) - call.oldOut
LastMail == outbox[Len(outbox)].msg

RunEnded == run.done /\ pc = "idle"
RunCompleted == RunEnded /\ run.error = NoError

----------------------------------------------------------------------------
(* C1: for any sequence of runs, the history store never contains two      *)
(* records with the same posting identifier.                               *)
C1_NoDuplicateIds ==
    \A i, j \in 1 .. Len(Records(csv)) :
        i # j => RecordId(Records(csv)[i]) # RecordId(Records(csv)[j])

(* C2: with the marker absent, a run failing with kind K sends exactly one *)
(* error notification and sets the marker to K; a following run failing    *)
(* with K again sends nothing and leaves the marker at K; a following run  *)
(* without error sends exactly one "resolved" notification and clears the  *)
(* marker.  K ranges over the fetch failures.                              *)
C2_ErrorSuppression ==
    /\ (/\ RunEnded
        /\ run.startMarker = NoMarker
        /\ run.error \in FetchKinds)
       => /\ SentInRun = 1
          /\ LastMail = ErrorMail(run.error)
          /\ marker = run.error
    /\ (/\ RunEnded
        /\ prev.done
        /\ prev.startMarker = NoMarker
        /\ prev.error \in FetchKinds
        /\ run.error = prev.error)
       => /\ SentInRun = 0
          /\ marker = run.error
    /\ (/\ RunEnded
        /\ prev.done
        /\ prev2.done
        /\ prev2.startMarker = NoMarker
        /\ prev2.error \in FetchKinds
        /\ prev.error = prev2.error
        /\ run.error = NoError)
       => /\ SentInRun = 1
          /\ LastMail = FixedMail
          /\ marker = NoMarker

(* The case of C3: the history at the start of the run is non-empty and    *)
(* holds every identifier fetched, and there is no error marker.           *)
C3_Premise ==
    /\ run.started
    /\ Records(run.startCsv) # <<>>
    /\ run.ids \subseteq RecordIds(run.startCsv)
    /\ run.startMarker = NoMarker

(* C3: a run that starts with a non-empty history holding every identifier *)
(* its fetches return, and with no error marker, sends no notification and *)
(* leaves the history store as it was.                                     *)
C3_NoChangeSilence ==
    C3_Premise => SentInRun = 0 /\ csv = run.startCsv

(* C3 happens: such a run fetched postings and completed. *)
C3_Witness ==
    C3_Premise /\ RunCompleted /\ run.nfetched > 0 /\ creds

(* The first run of C4: completed, from an empty history, k >= 1 postings  *)
(* fetched, their identifiers distinct.                                    *)
C4_FirstRun ==
    /\ RunCompleted
    /\ Records(run.startCsv) = <<>>
    /\ run.nfetched >= 1
    /\ Cardinality(run.ids) = run.nfetched

(* All k are new and the store ends with exactly these k records. *)
C4_FirstRunStored ==
    /\ run.new_count = run.nfetched
    /\ Len(Records(csv)) = run.nfetched
    /\ RecordIds(csv) = run.ids

(* Exactly one notification, listing the k items. *)
C4_FirstRunNotified ==
    /\ SentInRun = 1
    /\ LastMail.subject = "new items"
    /\ LastMail.count = run.nfetched
    /\ Len(LastMail.body) = run.nfetched

(* The second run of C4: right after such a first run, and its fetches     *)
(* return the same identifiers.                                            *)
C4_SecondRun ==
    /\ RunCompleted
    /\ prev.done
    /\ prev.error = NoError
    /\ prev.startRows <= 1
    /\ prev.nfetched >= 1
    /\ Cardinality(prev.ids) = prev.nfetched
    /\ run.ids = prev.ids

(* Nothing new, store unchanged, nothing sent. *)
C4_SecondRunResult ==
    /\ run.new_count = 0
    /\ csv = run.startCsv
    /\ SentInRun = 0

HistoryBefore == LoadHistory(call.before).dict
HistoryAfter == LoadHistory(csv).dict

(* Every record returned before is returned after, timestamp unchanged. *)
C5_PriorKept ==
    \A id \in DOMAIN HistoryBefore :
        id \in DOMAIN HistoryAfter /\ HistoryAfter[id] = HistoryBefore[id]

(* Exactly the appended postings are added, each with the timestamp of the *)
(* append as the store writes it (whole seconds).                          *)
C5_NewAdded ==
    /\ DOMAIN HistoryAfter = DOMAIN HistoryBefore \cup IdsOf(call.findings)
    /\ \A id \in IdsOf(call.findings) :
        strftime(HistoryAfter[id]) = strftime(call.now)

(* C5, as claimed: for any persisted history and any n postings, after    *)
(* save_results the load returns every record it returned before with its  *)
(* timestamp unchanged, plus exactly the appended postings, each mapped to *)
(* the timestamp of the append.                                            *)
C5_AsClaimed ==
    call.op = "save_results" => C5_PriorKept /\ C5_NewAdded

(* C5, amended: the same for n postings none of whose identifiers is in    *)
(* the persisted history already.                                          *)
C5_AppendOfNew ==
    (/\ call.op = "save_results"
     /\ IdsOf(call.findings) \cap DOMAIN HistoryBefore = {})
    => C5_PriorKept /\ C5_NewAdded

(* C5 happens: new postings were appended to a non-empty history written   *)
(* at another time.                                                        *)
C5_Witness ==
    /\ call.op = "save_results"
    /\ DOMAIN HistoryBefore # {}
    /\ call.findings # <<>>
    /\ IdsOf(call.findings) \cap DOMAIN HistoryBefore = {}
    /\ \E id \in DOMAIN HistoryBefore :
        strftime(HistoryBefore[id]) # strftime(call.now)

(* C6: a call of mail_notify with an error of kind K, credentials set, any *)
(* new_count: with the marker absent or of another kind an error           *)
(* notification is sent and the marker becomes K; with the marker equal to *)
(* K nothing is sent and the marker is unchanged.                          *)
C6_ErrorRule ==
    (/\ call.op = "mail_notify"
     /\ creds
     /\ call.error # None)
    => IF call.oldMarker # call.error
       THEN /\ SentInCall = 1
            /\ LastMail = ErrorMail(call.error)
            /\ marker = call.error
       ELSE /\ SentInCall = 0
            /\ marker = call.oldMarker

(* C7: mail_notify with new_count 0, no error, no marker, credentials set, *)
(* is a silent no-op: nothing sent, marker still absent, no exception.     *)
C7_SilentNoOp ==
    (/\ call.op = "mail_notify"
     /\ creds
     /\ call.new_count = 0
     /\ call.error = None
     /\ call.oldMarker = NoMarker)
    => /\ SentInCall = 0
       /\ marker = NoMarker
       /\ call.raised = NoError

(* The case of C8: the last call had new_count 0, no error, a marker       *)
(* present and the credentials set.                                        *)
C8_Case ==
    /\ call.op = "mail_notify"
    /\ creds
    /\ call.new_count = 0
    /\ call.error = None
    /\ call.oldMarker # NoMarker

(* C8: mail_notify with new_count 0, no error, a marker present and        *)
(* credentials set sends exactly one "error fixed" notification and leaves *)
(* the marker absent.                                                      *)
C8_ErrorFixed ==
    C8_Case => /\ SentInCall = 1
               /\ LastMail = FixedMail
               /\ marker = NoMarker

(* C8 happens: such a call was made and its message went out. *)
C8_Witness == C8_Case /\ call.sendOk

(* C9: a run that completes without error and started with a marker        *)
(* present ends with the marker absent.                                    *)
C9_MarkerCleared ==
    (RunCompleted /\ run.startMarker # NoMarker) => marker = NoMarker

(* Message i of the outbox is an error notification that was delivered. *)
IsDeliveredError(i) ==
    outbox[i].ok /\ outbox[i].msg.subject = ErrorSubject

(* C10: in every state the marker is absent or is the kind of the last     *)
(* error whose notification was delivered.                                 *)
C10_MarkerIsLastDelivered ==
    marker # NoMarker =>
        \E i \in 1 .. Len(outbox) :
            /\ IsDeliveredError(i)
            /\ outbox[i].msg = ErrorMail(marker)
            /\ \A j \in (i + 1) .. Len(outbox) : ~IsDeliveredError(j)

----------------------------------------------------------------------------
C11_Case ==
    /\ call.op = "mail_notify"
    /\ ~creds

(* C11: without credentials every call of mail_notify, whatever its        *)
(* new_count, posting list, error and marker file, sends nothing, raises   *)
(* nothing and leaves the marker file as it was.                           *)
C11_NoCredentialsNoOp ==
    C11_Case =>
        /\ SentInCall = 0
        /\ call.raised = NoError
        /\ marker = call.oldMarker

C11_Witness ==
    /\ C11_Case
    /\ call.oldMarker # NoMarker
    /\ call.error # None
    /\ call.error # call.oldMarker
    /\ call.new_count > 0

----------------------------------------------------------------------------
EmptyMapping == [raised |-> NoError, dict |-> <<>>]

(* C12 as claimed: read_results_from_csv, called while no history store    *)
(* exists, returns an empty mapping and does not fail.                     *)
C12_AsClaimed ==
    (call.op = "read_results_from_csv" /\ ~csv.exists) =>
        call.result = EmptyMapping

(* C12: while no history store exists the load step of __main__ yields an  *)
(* empty mapping and does not fail, because it does not call               *)
(* read_results_from_csv, which on its own raises FileNotFoundError.       *)
C12_GuardedLoad ==
    /\ (call.op = "load_history" /\ ~csv.exists) =>
            call.result = EmptyMapping
    /\ (call.op = "read_results_from_csv" /\ ~csv.exists) =>
            call.result.raised = MissingKind

C12_Witness ==
    /\ call.op = "load_history"
    /\ call.n > 1
    /\ ~csv.exists

----------------------------------------------------------------------------
(* The postings fetched so far in the run, in the order they came. *)
FetchedPostings == [i \in 1 .. Len(run.fetched) |-> run.fetched[i].post]

(* Those of them whose identifier the store of the start of the run lacks. *)
AbsentAtStart ==
    LET known == RecordIds(run.startCsv)
        absent(p) == p.posting_id \notin known
    IN  SelectSeq(FetchedPostings, absent)

(* C13: throughout a run the findings are exactly the fetched postings     *)
(* whose identifier is absent from the history loaded at the start of the  *)
(* run, and the loaded history stays what the load gave.                   *)
C13_NewIffAbsent ==
    pc # "idle" =>
        /\ findings = AbsentAtStart
        /\ DOMAIN old_dict = RecordIds(run.startCsv)
        /\ old_dict = LoadHistory(run.startCsv).dict

C13_Witness ==
    /\ pc = "save"
    /\ RecordIds(run.startCsv) # {}
    /\ findings # <<>>
    /\ Len(findings) < Len(run.fetched)

----------------------------------------------------------------------------
EndpointOf(p) == CHOOSE k \in 1 .. Len(Endpoints) : Endpoints[k] = p.base_url

(* f was fetched no later than g in the loops over filters and endpoints. *)
InLoopOrder(f, g) ==
    \/ f.fil < g.fil
    \/ f.fil = g.fil /\ EndpointOf(f.post) <= EndpointOf(g.post)

(* The records the run has appended to the store, without their Date. *)
AppendedRecords ==
    LET new == SubSeq(Records(csv), Len(Records(run.startCsv)) + 1,
                      Len(Records(csv)))
    IN  [i \in 1 .. Len(new) |-> Tail(new[i])]

ExpectedRecords ==
    LET new == AbsentAtStart
    IN  [i \in 1 .. Len(new) |->
            <<new[i].posting_id, new[i].name, new[i].price,
              get_direct_url(new[i])>>]

ExpectedLines ==
    LET new == AbsentAtStart
    IN  [i \in 1 .. Len(new) |-> MailLine(new[i])]

RunSaved ==
    \/ pc = "notify"
    \/ RunEnded /\ run.new_count > 0 /\ run.error \in {NoError, SendKind}

----------------------------------------------------------------------------
(* The loops over filters and endpoints have been left. *)
FetchesDone ==
    /\ pc \in {"save", "notify"}
    /\ fil = Len(filter_list)
    /\ ep = Len(Endpoints)

(* C15: a step of a run that writes the history store, or the marker file, *)
(* is taken after the last fetch of the run and finds the file as it was   *)
(* at the start of the run, so it is the only write to that file.          *)
C15_OneWriteAfterFetches ==
    [][ /\ csv' # csv => (FetchesDone /\ pc = "save" /\ csv = run.startCsv)
        /\ marker' # marker =>
                (FetchesDone /\ pc = "notify" /\ marker = run.startMarker)
      ]_vars

C15_Witness ==
    /\ pc = "notify"
    /\ run.startCsv.exists
    /\ Len(csv.rows) > Len(run.startCsv.rows)
    /\ Len(run.fetched) = Len(filter_list) * Len(Endpoints)

----------------------------------------------------------------------------
HeaderLines == {i \in 1 .. Len(csv.rows) : csv.rows[i] = HeaderRow}

(* C16: once save_results has been called on a store that did not exist,   *)
(* with postings or with none, and however often it is called again, the   *)
(* first line of the store is the header row Date,Id,Name,Price,Url and no *)
(* other line is.                                                          *)
C16_HeaderOnce ==
    call.op = "save_results" =>
        /\ csv.exists
        /\ HeaderLines = {1}

C16_Witness ==
    /\ call.op = "save_results"
    /\ call.before.exists
    /\ Len(call.before.rows) = 1
    /\ call.findings # <<>>

----------------------------------------------------------------------------
FetchFailed == RunEnded /\ run.error \in FetchKinds

(* C17: a run in which a fetch fails, for whichever filter and endpoint    *)
(* and whatever was found before, ends with the history store and the      *)
(* marker file as they were at its start, and has sent nothing.            *)
C17_FailedFetchChangesNothing ==
    FetchFailed =>
        /\ csv = run.startCsv
        /\ marker = run.startMarker
        /\ SentInRun = 0

C17_Witness ==
    /\ FetchFailed
    /\ run.new_count > 0
    /\ Len(run.fetched) = 3
    /\ run.fetched[3].fil = 2
    /\ run.startMarker # NoMarker
    /\ run.startCsv.exists

----------------------------------------------------------------------------
(* The lines a notification can have for each posting id. *)
LinesOf ==
    [id \in Ids |-> {MailLine(Posting(RawPosting(id), Endpoints[k])) :
                        k \in 1 .. Len(Endpoints)}]

(* The message is a new-items notification with a line for posting id. *)
Lists(msg, id) ==
    /\ msg.subject = "new items"
    /\ \E i \in 1 .. Len(msg.body) : msg.body[i] \in LinesOf[id]

NotificationsOf(id) == {i \in 1 .. Len(outbox) : Lists(outbox[i].msg, id)}

(* C18: over all runs, no posting identifier is listed in more than one    *)
(* new-items notification.                                                 *)
C18_ReportedOnce ==
    \A id \in Ids : Cardinality(NotificationsOf(id)) <= 1

C18_Witness ==
    /\ RunCompleted
    /\ Len(outbox) = 2
    /\ \E id \in Ids :
            /\ NotificationsOf(id) = {1}
            /\ id \in run.ids
            /\ NotificationsOf(CHOOSE other \in Ids : other # id) = {2}

----------------------------------------------------------------------------
(* C19: whatever a new-items notification lists is recorded in the history *)
(* store; a run whose save_results failed has sent nothing; and a run that *)
(* has handed a notification to the transport had appended its findings    *)
(* to the store before.                                                    *)
C19_SavedBeforeNotified ==
    /\ LET recorded == RecordIds(csv)
       IN  \A i \in 1 .. Len(outbox), id \in Ids :
               Lists(outbox[i].msg, id) => id \in recorded
    /\ (RunEnded /\ run.error = SaveKind) =>
            (SentInRun = 0 /\ csv = run.startCsv)
    /\ SentInRun > 0 => AppendedRecords = ExpectedRecords

C19_Witness ==
    /\ RunEnded
    /\ SentInRun = 1
    /\ prev.error = SaveKind
    /\ \E id \in Ids : Lists(LastMail, id)

====
